---- MODULE Spec2Model ----
(***************************************************************************)
(* The wallet/session controller of frontend/src/components/Dapp.vue:      *)
(* connectWallet, the accountsChanged / networkChanged handlers, the       *)
(* balance polling timer, getTokenData / updateBalance and transferTokens, *)
(* run on the single-threaded JavaScript event loop.  One action is one    *)
(* event-loop task: a user intent, a provider event, a timer tick or the   *)
(* delivery of a provider answer, together with the whole continuation of  *)
(* the async method up to its next await.                                  *)
(***************************************************************************)
EXTENDS Integers, Sequences, FiniteSets, TLC

\* ---------------------------------------------------------------- bounds
\* The session specification (Spec): connecting, provider events, polling.
\* connectWallet calls that may await window.ethereum.enable() at once
MaxConnects == 2
\* interval timers installed in one run (setInterval hands out fresh ids)
MaxTimers == 4
\* calls of one read method (balanceOf; name/symbol) in flight at once
MaxReads == 2
\* registrations of each provider event handler in one run
MaxHandlers == 2
SessionBounds ==
  [connects |-> MaxConnects, timers |-> MaxTimers, reads |-> MaxReads,
   handlers |-> MaxHandlers]

\* The transfer specification (SpecTransfer): the same, within tighter
\* bounds, and transferTokens.
\* transferTokens invocations in one run
MaxTx == 2
\* connectWallet calls awaiting enable() at once
TxConnects == 1
\* interval timers installed in one run
TxTimers == 1
\* calls of one read method in flight at once
TxReads == 1
\* registrations of each provider event handler in one run
TxHandlers == 1
TransferBounds ==
  [connects |-> TxConnects, timers |-> TxTimers, reads |-> TxReads,
   handlers |-> TxHandlers]

\* ------------------------------------------------------------- constants
HARDHAT_NETWORK_ID == "1337"
ERROR_CODE_TX_REJECTED_BY_USER == 4001

\* `undefined` and a defined value v
Undefined == <<>>
Some(v) == <<v>>

\* the accounts of the wallet, and the networks it can be on
Addr == {"a1", "a2"}
Networks == {"1337", "100"}
\* what the Transfer form may submit: the recipient and the amount
Recipients == {"a2"}
Amounts == {1, 2}
\* the Token contract's balances when the page loads
InitialChain == [a \in Addr |-> IF a = "a1" THEN 2 ELSE 1]
\* what token.name() and token.symbol() answer
TokenName == "My Hardhat Token"
TokenSymbol == "MHT"

NetworkErrorMessage == "Please connect Metamask to Localhost:8545"

\* errors: {code, message, data}, code and data possibly undefined
TransactionFailedError ==
  [code |-> Undefined, message |-> "Transaction failed", data |-> Undefined]
UserRejectedError ==
  [code |-> Some(ERROR_CODE_TX_REJECTED_BY_USER),
   message |-> "User denied transaction signature", data |-> Undefined]
RpcError ==
  [code |-> Some(-32603), message |-> "Internal JSON-RPC error",
   data |-> Some([message |-> "VM Exception while processing transaction: revert"])]
PlainError ==
  [code |-> Undefined, message |-> "could not detect network", data |-> Undefined]
\* what a provider call can be rejected with
ProviderErrors == {RpcError, PlainError}

VARIABLES
  tokenData, selectedAddress, balance,      \* data(): lines 94-97
  txBeingSent, transactionError, networkError, \* data(): lines 99-101
  pollDataInterval,   \* this.pollDataInterval: the handle setInterval returned
  token,              \* this.token is bound (intializeEthers ran)
  timers,             \* the interval timers that are live in the browser
  timerSeq,           \* the last timer id setInterval handed out
  accountsChangedHandlers, \* listeners registered on "accountsChanged"
  networkChangedHandlers,  \* listeners registered on "networkChanged"
  networkVersion,     \* window.ethereum.networkVersion
  chain,              \* the Token contract's balanceOf mapping
  connecting,         \* connectWallet calls awaiting enable()
  tokenFetches,       \* getTokenData calls in flight, by the call they await
  reads,              \* updateBalance calls in flight (timer or immediate)
  transfers,          \* the transferTokens invocations, by order of invocation
  ethereum,           \* window.ethereum is defined (a wallet is installed)
  mounted,            \* the component is mounted (its template takes intents)
  uncaughtTypeError   \* a connectWallet call threw on window.ethereum.enable

vars == <<tokenData, selectedAddress, balance, txBeingSent, transactionError,
          networkError, pollDataInterval, token, timers, timerSeq,
          accountsChangedHandlers, networkChangedHandlers, networkVersion,
          chain, connecting, tokenFetches, reads, transfers, ethereum,
          mounted, uncaughtTypeError>>

\* the page around the component: the wallet's presence, the component's
\* mounting, and the errors nothing caught
pageVars == <<ethereum, mounted, uncaughtTypeError>>

\* the variables outside the component and its scheduled work
envVars == <<networkVersion, chain, pageVars>>

\* ------------------------------------------------- the component's state
\* What the synchronous methods read and write, as one record, so that the
\* methods compose as they do in the code.
Cur ==
  [tokenData |-> tokenData, selectedAddress |-> selectedAddress,
   balance |-> balance, txBeingSent |-> txBeingSent,
   transactionError |-> transactionError, networkError |-> networkError,
   pollDataInterval |-> pollDataInterval, token |-> token,
   timers |-> timers, timerSeq |-> timerSeq,
   tokenFetches |-> tokenFetches, reads |-> reads]

Commit(st) ==
  /\ tokenData' = st.tokenData
  /\ selectedAddress' = st.selectedAddress
  /\ balance' = st.balance
  /\ txBeingSent' = st.txBeingSent
  /\ transactionError' = st.transactionError
  /\ networkError' = st.networkError
  /\ pollDataInterval' = st.pollDataInterval
  /\ token' = st.token
  /\ timers' = st.timers
  /\ timerSeq' = st.timerSeq
  /\ tokenFetches' = st.tokenFetches
  /\ reads' = st.reads

\* initialData(): every field undefined
initialData ==
  [tokenData |-> Undefined, selectedAddress |-> Undefined,
   balance |-> Undefined, txBeingSent |-> Undefined,
   transactionError |-> Undefined, networkError |-> Undefined]

\* resetState() forgetting the transaction fields
resetState_KeepsTransaction(st) ==
  [st EXCEPT !.tokenData = initialData.tokenData,
             !.selectedAddress = initialData.selectedAddress,
             !.balance = initialData.balance,
             !.networkError = initialData.networkError]

\* resetState(): Object.assign(this.$data, initialData())
resetState(st) ==
  [st EXCEPT !.tokenData = initialData.tokenData,
             !.selectedAddress = initialData.selectedAddress,
             !.balance = initialData.balance,
             !.txBeingSent = initialData.txBeingSent,
             !.transactionError = initialData.transactionError,
             !.networkError = initialData.networkError]

\* clearInterval(h): a no-op on undefined
clearInterval(live, h) == IF h = Undefined THEN live ELSE live \ {h[1]}

\* stopPollingData()
stopPollingData(st) ==
  [st EXCEPT !.timers = clearInterval(st.timers, st.pollDataInterval),
             !.pollDataInterval = Undefined]

\* updateBalance() up to its await: token.balanceOf(this.selectedAddress) is
\* called with the address of that moment; the answer is not there yet
updateBalance(st) ==
  [st EXCEPT !.reads[[addr |-> st.selectedAddress, val |-> Undefined]] = @ + 1]

\* startPollingData(): a new timer, its handle stored, one read at once
startPollingData(st) ==
  updateBalance([st EXCEPT !.timerSeq = @ + 1,
                           !.timers = @ \cup {st.timerSeq + 1},
                           !.pollDataInterval = Some(st.timerSeq + 1)])

\* getTokenData() up to its first await: token.name() is called
getTokenData(st) == [st EXCEPT !.tokenFetches.name = @ + 1]

\* intializeEthers(): no await in it, so it runs to its end when called
intializeEthers(st) == [st EXCEPT !.token = TRUE]

\* initialize(userAddress)
initialize(st, userAddress) ==
  startPollingData(
    getTokenData(
      intializeEthers([st EXCEPT !.selectedAddress = Some(userAddress)])))

\* checkNetwork() accepting any network
checkNetworkOk_AnyNetwork == TRUE

\* checkNetwork(): its result, and its effect on the state
checkNetworkOk == networkVersion = HARDHAT_NETWORK_ID
checkNetwork(st) ==
  IF checkNetworkOk THEN st ELSE [st EXCEPT !.networkError = Some(NetworkErrorMessage)]

\* the "accountsChanged" listener starting the new polling before it stops
\* the old one
accountsChangedHandler_StopsLast(st, newAddress) ==
  IF newAddress = Undefined
    THEN resetState(stopPollingData(st))
    ELSE stopPollingData(initialize(st, newAddress[1]))

\* the "accountsChanged" listener
accountsChangedHandler(st, newAddress) ==
  IF newAddress = Undefined
    THEN resetState(stopPollingData(st))
    ELSE initialize(stopPollingData(st), newAddress[1])

\* the "networkChanged" listener
networkChangedHandler(st) == resetState(stopPollingData(st))

\* emit: every registered listener runs, in order, within the one task
RECURSIVE EmitAccountsChanged(_, _, _)
EmitAccountsChanged(n, st, newAddress) ==
  IF n = 0 THEN st
  ELSE EmitAccountsChanged(n - 1, accountsChangedHandler(st, newAddress), newAddress)

RECURSIVE EmitNetworkChanged(_, _)
EmitNetworkChanged(n, st) ==
  IF n = 0 THEN st ELSE EmitNetworkChanged(n - 1, networkChangedHandler(st))

\* ----------------------------------------------------------------- tasks
\* A transferTokens invocation: where it stands (pc), its arguments, the
\* signer's address, the mined transaction's receipt status once it is mined,
\* the refreshing balanceOf call (its argument and answer), and how it ended.
IdleTransfer ==
  [pc |-> "idle", from |-> "-", to |-> "-", amount |-> 0, status |-> "none",
   readAddr |-> Undefined, readVal |-> Undefined, outcome |-> "none"]

\* tx.hash of the i-th transaction
TxHash(i) == i

\* the balanceOf calls that can be in flight: the address asked for (undefined
\* when selectedAddress was) and the provider's answer once it has one
Balances == 0..(InitialChain["a1"] + InitialChain["a2"])
ReadDescs ==
  [addr : {Undefined} \cup {Some(a) : a \in Addr},
   val : {Undefined} \cup {Some(n) : n \in Balances}]

\* ReadDescs in some fixed order, to sum over
RECURSIVE SeqOf(_)
SeqOf(S) ==
  IF S = {} THEN <<>>
  ELSE LET x == CHOOSE y \in S : TRUE IN <<x>> \o SeqOf(S \ {x})
ReadDescSeq == SeqOf(ReadDescs)

RECURSIVE SumTo(_, _)
SumTo(b, n) == IF n = 0 THEN 0 ELSE b[ReadDescSeq[n]] + SumTo(b, n - 1)

\* how many balanceOf calls, and how many name/symbol calls, are in flight
InFlightReads(b) == SumTo(b, Len(ReadDescSeq))
InFlightFetches(f) == f.name + f.symbol

Init ==
  /\ tokenData = initialData.tokenData
  /\ selectedAddress = initialData.selectedAddress
  /\ balance = initialData.balance
  /\ txBeingSent = initialData.txBeingSent
  /\ transactionError = initialData.transactionError
  /\ networkError = initialData.networkError
  /\ pollDataInterval = Undefined
  /\ token = FALSE
  /\ timers = {}
  /\ timerSeq = 0
  /\ accountsChangedHandlers = 0
  /\ networkChangedHandlers = 0
  /\ networkVersion \in Networks
  /\ chain = InitialChain
  /\ connecting = 0
  /\ tokenFetches = [name |-> 0, symbol |-> 0]
  /\ reads = [r \in ReadDescs |-> 0]
  /\ transfers = [i \in 1..MaxTx |-> IdleTransfer]
  /\ ethereum \in BOOLEAN
  /\ mounted = TRUE
  /\ uncaughtTypeError = FALSE

\* ------------------------------------------------------- session actions
\* checkForWallet (computed): no wallet is installed
checkForWallet == ~ethereum

\* The Connect button (template lines 5-18: shown when a wallet is installed,
\* while !selectedAddress) calls connectWallet, which awaits
\* window.ethereum.enable().
ConnectWallet(b) ==
  /\ mounted
  /\ ~checkForWallet
  /\ selectedAddress = Undefined
  /\ connecting < b.connects
  /\ connecting' = connecting + 1
  /\ UNCHANGED <<tokenData, selectedAddress, balance, txBeingSent,
                 transactionError, networkError, pollDataInterval, token,
                 timers, timerSeq, accountsChangedHandlers,
                 networkChangedHandlers, tokenFetches, reads, transfers>>
  /\ UNCHANGED envVars

\* window.ethereum.enable() never throwing
enableThrows_Never == FALSE

\* evaluating window.ethereum.enable() throws a TypeError when window.ethereum
\* is undefined
enableThrows == ethereum = FALSE

\* connectWallet() called while no wallet is installed (the template shows
\* NoWalletDetected then, not the Connect button, so the call comes from
\* elsewhere): its first line throws before anything is awaited, and the
\* promise it returned is rejected with nothing to catch it.
ConnectWalletNoProvider(b) ==
  /\ checkForWallet
  /\ IF enableThrows
       THEN /\ uncaughtTypeError' = TRUE
            /\ UNCHANGED connecting
       ELSE /\ connecting < b.connects
            /\ connecting' = connecting + 1
            /\ UNCHANGED uncaughtTypeError
  /\ UNCHANGED <<tokenData, selectedAddress, balance, txBeingSent,
                 transactionError, networkError, pollDataInterval, token,
                 timers, timerSeq, accountsChangedHandlers,
                 networkChangedHandlers, tokenFetches, reads, transfers>>
  /\ UNCHANGED <<networkVersion, chain, ethereum, mounted>>

\* The component is destroyed.  Its only lifecycle hook is mounted();
\* componentWillUnmount is one of its methods, which nothing calls.
Unmount ==
  /\ mounted
  /\ mounted' = FALSE
  /\ UNCHANGED <<tokenData, selectedAddress, balance, txBeingSent,
                 transactionError, networkError, pollDataInterval, token,
                 timers, timerSeq, accountsChangedHandlers,
                 networkChangedHandlers, connecting, tokenFetches, reads,
                 transfers>>
  /\ UNCHANGED <<networkVersion, chain, ethereum, uncaughtTypeError>>

\* enable() resolves with the account; connectWallet runs to its end.
ConnectResolved(b, addr) ==
  /\ connecting > 0
  /\ connecting' = connecting - 1
  /\ IF checkNetworkOk
       THEN /\ timerSeq < b.timers
            /\ accountsChangedHandlers < b.handlers
            /\ InFlightReads(reads) < b.reads
            /\ InFlightFetches(tokenFetches) < b.reads
            /\ Commit(initialize(checkNetwork(Cur), addr))
            /\ accountsChangedHandlers' = accountsChangedHandlers + 1
            /\ networkChangedHandlers' = networkChangedHandlers + 1
       ELSE /\ Commit(checkNetwork(Cur))
            /\ UNCHANGED <<accountsChangedHandlers, networkChangedHandlers>>
  /\ UNCHANGED transfers
  /\ UNCHANGED envVars

\* enable() rejects (the user closes the wallet's prompt): connectWallet
\* throws at its first line.
ConnectRejected ==
  /\ connecting > 0
  /\ connecting' = connecting - 1
  /\ UNCHANGED <<tokenData, selectedAddress, balance, txBeingSent,
                 transactionError, networkError, pollDataInterval, token,
                 timers, timerSeq, accountsChangedHandlers,
                 networkChangedHandlers, tokenFetches, reads, transfers>>
  /\ UNCHANGED envVars

\* The wallet emits accountsChanged([newAddress]), newAddress possibly
\* undefined; every registered listener runs.
AccountsChanged(b, newAddress) ==
  /\ accountsChangedHandlers > 0
  /\ newAddress # selectedAddress
  /\ newAddress # Undefined =>
       /\ timerSeq + accountsChangedHandlers <= b.timers
       /\ InFlightReads(reads) + accountsChangedHandlers <= b.reads
       /\ InFlightFetches(tokenFetches) + accountsChangedHandlers <= b.reads
  /\ Commit(EmitAccountsChanged(accountsChangedHandlers, Cur, newAddress))
  /\ UNCHANGED <<accountsChangedHandlers, networkChangedHandlers, connecting,
                 transfers>>
  /\ UNCHANGED envVars

\* The wallet switches network and emits networkChanged; every registered
\* listener runs.
NetworkChanged(net) ==
  /\ ethereum
  /\ net # networkVersion
  /\ networkVersion' = net
  /\ Commit(EmitNetworkChanged(networkChangedHandlers, Cur))
  /\ UNCHANGED <<accountsChangedHandlers, networkChangedHandlers, connecting,
                 transfers, chain, pageVars>>

\* --------------------------------------------------- reads and the timer
\* A live interval timer fires: () => this.updateBalance()
PollTick(b, t) ==
  /\ t \in timers
  /\ InFlightReads(reads) < b.reads
  /\ Commit(updateBalance(Cur))
  /\ UNCHANGED <<accountsChangedHandlers, networkChangedHandlers, connecting,
                 transfers>>
  /\ UNCHANGED envVars

\* The node evaluates a balanceOf call: its answer is the balance of that
\* moment.
ReadAnswered(r) ==
  /\ reads[r] > 0
  /\ r.val = Undefined
  /\ r.addr # Undefined
  /\ reads' = [reads EXCEPT ![r] = @ - 1,
                            ![[r EXCEPT !.val = Some(chain[r.addr[1]])]] = @ + 1]
  /\ UNCHANGED <<tokenData, selectedAddress, balance, txBeingSent,
                 transactionError, networkError, pollDataInterval, token,
                 timers, timerSeq, accountsChangedHandlers,
                 networkChangedHandlers, connecting, tokenFetches, transfers>>
  /\ UNCHANGED envVars

\* updateBalance dropping the answer once polling has been stopped
updateBalanceResume_DropsWhenStopped(st, val) ==
  IF st.pollDataInterval = Undefined THEN st ELSE [st EXCEPT !.balance = val]

\* updateBalance resumes after its await: this.balance = <the answer>
updateBalanceResume(st, val) == [st EXCEPT !.balance = val]

ReadResolved(r) ==
  /\ reads[r] > 0
  /\ r.val # Undefined
  /\ Commit(updateBalanceResume([Cur EXCEPT !.reads[r] = @ - 1], r.val))
  /\ UNCHANGED <<accountsChangedHandlers, networkChangedHandlers, connecting,
                 transfers>>
  /\ UNCHANGED envVars

\* balanceOf rejects (an RPC failure, or undefined passed as the address):
\* updateBalance throws and nothing catches it.
ReadRejected(r) ==
  /\ reads[r] > 0
  /\ r.val = Undefined
  /\ reads' = [reads EXCEPT ![r] = @ - 1]
  /\ UNCHANGED <<tokenData, selectedAddress, balance, txBeingSent,
                 transactionError, networkError, pollDataInterval, token,
                 timers, timerSeq, accountsChangedHandlers,
                 networkChangedHandlers, connecting, tokenFetches, transfers>>
  /\ UNCHANGED envVars

\* token.name() resolves: getTokenData goes on to await token.symbol()
NameResolved ==
  /\ tokenFetches.name > 0
  /\ tokenFetches' = [name |-> tokenFetches.name - 1,
                      symbol |-> tokenFetches.symbol + 1]
  /\ UNCHANGED <<tokenData, selectedAddress, balance, txBeingSent,
                 transactionError, networkError, pollDataInterval, token,
                 timers, timerSeq, accountsChangedHandlers,
                 networkChangedHandlers, connecting, reads, transfers>>
  /\ UNCHANGED envVars

\* token.symbol() resolves: this.tokenData = { name, symbol }
getTokenDataResume(st) ==
  [st EXCEPT !.tokenData = Some([name |-> TokenName, symbol |-> TokenSymbol])]

SymbolResolved ==
  /\ tokenFetches.symbol > 0
  /\ Commit(getTokenDataResume([Cur EXCEPT !.tokenFetches.symbol = @ - 1]))
  /\ UNCHANGED <<accountsChangedHandlers, networkChangedHandlers, connecting,
                 transfers>>
  /\ UNCHANGED envVars

\* token.name() or token.symbol() rejects: getTokenData throws, uncaught
TokenFetchRejected(stage) ==
  /\ tokenFetches[stage] > 0
  /\ tokenFetches' = [tokenFetches EXCEPT ![stage] = @ - 1]
  /\ UNCHANGED <<tokenData, selectedAddress, balance, txBeingSent,
                 transactionError, networkError, pollDataInterval, token,
                 timers, timerSeq, accountsChangedHandlers,
                 networkChangedHandlers, connecting, reads, transfers>>
  /\ UNCHANGED envVars

\* --------------------------------------------------------- transferTokens
\* dismissTransactionError() clearing the network error as well
dismissTransactionError_ClearsBoth(st) ==
  [st EXCEPT !.transactionError = Undefined, !.networkError = Undefined]

\* dismissTransactionError()
dismissTransactionError(st) == [st EXCEPT !.transactionError = Undefined]

\* dismissTransactionError() called on its own (the template binds no event
\* to it, so the call comes from elsewhere)
DismissTransactionError ==
  /\ Commit(dismissTransactionError(Cur))
  /\ UNCHANGED <<accountsChangedHandlers, networkChangedHandlers, connecting,
                 transfers>>
  /\ UNCHANGED envVars

\* getRpcErrorMessage(error): error.data.message when the error has data,
\* error.message otherwise
getRpcErrorMessage(error) ==
  IF error.data # Undefined THEN error.data[1].message ELSE error.message

\* the catch block storing every error, the user's rejection too
catchBlock_StoresRejection(st, error) ==
  [st EXCEPT !.transactionError = Some(error)]

\* the catch block dropping every error
catchBlock_DropsAll(st, error) == st

\* the catch block: a user rejection is dropped, any other error is stored
catchBlock(st, error) ==
  IF error.code = Some(ERROR_CODE_TX_REJECTED_BY_USER)
    THEN st
    ELSE [st EXCEPT !.transactionError = Some(error)]

\* a finally block that leaves txBeingSent as it is
finallyBlock_Skipped(st) == st

\* the finally block
finallyBlock(st) == [st EXCEPT !.txBeingSent = Undefined]

\* an await inside the try throws: catch, then finally
transferThrows(st, error) == finallyBlock(catchBlock(st, error))

\* the try block resumes with the tx: its hash is stored, tx.wait() awaited
transferSubmitted(st, hash) == [st EXCEPT !.txBeingSent = Some(hash)]

\* the try block ends after `await this.updateBalance()`: that call stored
\* the answer in balance before it returned; then finally
transferRefreshed(st, val) == finallyBlock(updateBalanceResume(st, val))

\* an invocation that has returned: only how it ended is kept
Finished(outcome) == [IdleTransfer EXCEPT !.pc = "done", !.outcome = outcome]

\* what the outcome of an invocation that threw is called
ThrownOutcome(error) ==
  IF error.code = Some(ERROR_CODE_TX_REJECTED_BY_USER) THEN "rejected" ELSE "error"

OtherVarsOfTransfer ==
  <<accountsChangedHandlers, networkChangedHandlers, connecting, networkVersion,
    pageVars>>

\* The Transfer form (template lines 17-58: shown while selectedAddress,
\* tokenData and balance are set and balance > 0) calls
\* transferTokens(to, amount): the error is dismissed and token.transfer
\* called, with the signer of the connected account.
TransferTokens(i, to, amount) ==
  /\ mounted
  /\ selectedAddress # Undefined
  /\ tokenData # Undefined
  /\ balance # Undefined
  /\ balance[1] > 0
  /\ transfers[i].pc = "idle"
  /\ \A j \in 1..(i - 1) : transfers[j].pc # "idle"
  /\ Commit(dismissTransactionError(Cur))
  /\ transfers' = [transfers EXCEPT ![i] =
       [IdleTransfer EXCEPT !.pc = "submitting", !.from = selectedAddress[1],
                            !.to = to, !.amount = amount]]
  /\ UNCHANGED OtherVarsOfTransfer
  /\ UNCHANGED chain

\* token.transfer resolves with the transaction
SubmitResolved(i) ==
  /\ transfers[i].pc = "submitting"
  /\ Commit(transferSubmitted(Cur, TxHash(i)))
  /\ transfers' = [transfers EXCEPT ![i].pc = "waiting"]
  /\ UNCHANGED OtherVarsOfTransfer
  /\ UNCHANGED chain

\* token.transfer rejects: the user declined in the wallet, or the provider
\* refused the transaction
SubmitFailed(i, error) ==
  /\ transfers[i].pc = "submitting"
  /\ Commit(transferThrows(Cur, error))
  /\ transfers' = [transfers EXCEPT ![i] = Finished(ThrownOutcome(error))]
  /\ UNCHANGED OtherVarsOfTransfer
  /\ UNCHANGED chain

\* The network mines the transaction: the tokens move and the status is 1,
\* or the transaction reverts and the status is 0.
Mined(i, ok) ==
  /\ transfers[i].pc = "waiting"
  /\ transfers[i].status = "none"
  /\ ok => chain[transfers[i].from] >= transfers[i].amount
  /\ chain' =
       IF ok
         THEN LET t == transfers[i]
                  debited == [chain EXCEPT ![t.from] = @ - t.amount]
              IN [debited EXCEPT ![t.to] = @ + t.amount]
         ELSE chain
  /\ transfers' = [transfers EXCEPT ![i].status = IF ok THEN "ok" ELSE "failed"]
  /\ UNCHANGED <<tokenData, selectedAddress, balance, txBeingSent,
                 transactionError, networkError, pollDataInterval, token,
                 timers, timerSeq, tokenFetches, reads>>
  /\ UNCHANGED OtherVarsOfTransfer

\* tx.wait() resolves with the receipt: status 0 throws "Transaction
\* failed"; otherwise updateBalance is called and awaited.
WaitResolved(i) ==
  /\ transfers[i].pc = "waiting"
  /\ transfers[i].status # "none"
  /\ IF transfers[i].status = "failed"
       THEN /\ Commit(transferThrows(Cur, TransactionFailedError))
            /\ transfers' = [transfers EXCEPT ![i] = Finished("failed")]
       ELSE /\ transfers' = [transfers EXCEPT ![i].pc = "refreshing",
                                              ![i].readAddr = selectedAddress]
            /\ UNCHANGED <<tokenData, selectedAddress, balance, txBeingSent,
                           transactionError, networkError, pollDataInterval,
                           token, timers, timerSeq, tokenFetches, reads>>
  /\ UNCHANGED OtherVarsOfTransfer
  /\ UNCHANGED chain

\* tx.wait() rejects
WaitFailed(i, error) ==
  /\ transfers[i].pc = "waiting"
  /\ Commit(transferThrows(Cur, error))
  /\ transfers' = [transfers EXCEPT ![i] = Finished("error")]
  /\ UNCHANGED OtherVarsOfTransfer
  /\ UNCHANGED chain

\* The node evaluates the refreshing balanceOf call.
RefreshAnswered(i) ==
  /\ transfers[i].pc = "refreshing"
  /\ transfers[i].readVal = Undefined
  /\ transfers[i].readAddr # Undefined
  /\ transfers' = [transfers EXCEPT ![i].readVal =
                                      Some(chain[transfers[i].readAddr[1]])]
  /\ UNCHANGED <<tokenData, selectedAddress, balance, txBeingSent,
                 transactionError, networkError, pollDataInterval, token,
                 timers, timerSeq, tokenFetches, reads>>
  /\ UNCHANGED OtherVarsOfTransfer
  /\ UNCHANGED chain

\* The refreshing updateBalance returns: the try block is over.
RefreshResolved(i) ==
  /\ transfers[i].pc = "refreshing"
  /\ transfers[i].readVal # Undefined
  /\ Commit(transferRefreshed(Cur, transfers[i].readVal))
  /\ transfers' = [transfers EXCEPT ![i] = Finished("success")]
  /\ UNCHANGED OtherVarsOfTransfer
  /\ UNCHANGED chain

\* The refreshing balanceOf rejects (an RPC failure, or undefined passed as
\* the address): the awaited updateBalance throws into the try block.
RefreshFailed(i, error) ==
  /\ transfers[i].pc = "refreshing"
  /\ transfers[i].readVal = Undefined
  /\ Commit(transferThrows(Cur, error))
  /\ transfers' = [transfers EXCEPT ![i] = Finished("error")]
  /\ UNCHANGED OtherVarsOfTransfer
  /\ UNCHANGED chain

\* ------------------------------------------------------ the specification
TransferStep(i) ==
  \/ SubmitResolved(i)
  \/ \E e \in ProviderErrors \cup {UserRejectedError} : SubmitFailed(i, e)
  \/ \E ok \in BOOLEAN : Mined(i, ok)
  \/ WaitResolved(i)
  \/ \E e \in ProviderErrors : WaitFailed(i, e)
  \/ RefreshAnswered(i)
  \/ RefreshResolved(i)
  \/ \E e \in ProviderErrors : RefreshFailed(i, e)

SessionStep(b) ==
  \/ ConnectWallet(b)
  \/ \E a \in Addr : ConnectResolved(b, a)
  \/ ConnectRejected
  \/ \E a \in {Undefined} \cup {Some(x) : x \in Addr} : AccountsChanged(b, a)
  \/ \E n \in Networks : NetworkChanged(n)
  \/ \E t \in timers : PollTick(b, t)
  \/ \E r \in ReadDescs : ReadAnswered(r)
  \/ \E r \in ReadDescs : ReadResolved(r)
  \/ \E r \in ReadDescs : ReadRejected(r)
  \/ NameResolved
  \/ SymbolResolved
  \/ \E s \in {"name", "symbol"} : TokenFetchRejected(s)

\* connecting, provider events and polling
Next == SessionStep(SessionBounds)

Spec == Init /\ [][Next]_vars

\* the same with transferTokens
NextTransfer ==
  \/ SessionStep(TransferBounds)
  \/ \E i \in 1..MaxTx, to \in Recipients, n \in Amounts : TransferTokens(i, to, n)
  \/ \E i \in 1..MaxTx : TransferStep(i)

SpecTransfer == Init /\ [][NextTransfer]_vars

\* one transferTokens invocation, and room for one change of account after
\* the connection
SwitchBounds == [TransferBounds EXCEPT !.timers = TxTimers + 1]

NextSwitch ==
  \/ SessionStep(SwitchBounds)
  \/ \E to \in Recipients, n \in Amounts : TransferTokens(1, to, n)
  \/ TransferStep(1)

SpecSwitch == Init /\ [][NextSwitch]_vars

\* The provider eventually answers each call of a transferTokens invocation
\* (token.transfer, tx.wait, balanceOf), and the network eventually mines.
SpecTransferFair ==
  SpecTransfer /\ \A i \in 1..MaxTx : WF_vars(TransferStep(i))

\* the same, and the component's methods called from outside its template
NextCalls ==
  \/ NextTransfer
  \/ ConnectWalletNoProvider(TransferBounds)
  \/ DismissTransactionError

SpecCalls == Init /\ [][NextCalls]_vars

\* the session, and the component's destruction
NextUnmount ==
  \/ SessionStep(SwitchBounds)
  \/ Unmount

SpecUnmount == Init /\ [][NextUnmount]_vars

\* ----------------------------------------------------------------- claims
ToSet(opt) == IF opt = Undefined THEN {} ELSE {opt[1]}

\* a connectWallet call resumes after `await window.ethereum.enable()`
ConnectResumes == \E a \in Addr : ConnectResolved(SessionBounds, a)
\* a provider event that carries no account, or a change of network
ResetEvent ==
  \/ AccountsChanged(SessionBounds, Undefined)
  \/ \E n \in Networks : NetworkChanged(n)
\* invocation i returns in this step
Returns(i) == transfers[i].pc # "done" /\ transfers'[i].pc = "done"
ReturnsWith(i, outcome) == Returns(i) /\ transfers'[i].outcome = outcome

\* C1: in every reachable state, if selectedAddress is empty then tokenData,
\* balance and txBeingSent are empty as well.
C1_SessionAbsentImpliesNoData ==
  selectedAddress = Undefined =>
    /\ tokenData = Undefined
    /\ balance = Undefined
    /\ txBeingSent = Undefined

\* C2: in every reachable state at most one interval timer is live: every
\* live timer is the one stored in pollDataInterval.
C2_AtMostOneLiveTimer ==
  /\ timers \subseteq ToSet(pollDataInterval)
  /\ Cardinality(timers) <= 1

\* C3: when connectWallet resumes and the wallet's network is not "1337",
\* networkError is set, selectedAddress, tokenData and balance stay as they
\* were (empty when they were empty), and no timer is installed.
C3_MismatchSetsNetworkErrorOnly ==
  [][(ConnectResumes /\ networkVersion # "1337") =>
       /\ networkError' = Some(NetworkErrorMessage)
       /\ UNCHANGED <<selectedAddress, tokenData, balance>>
       /\ UNCHANGED <<timers, timerSeq, pollDataInterval>>
       /\ UNCHANGED <<tokenFetches, reads>>
       /\ UNCHANGED <<accountsChangedHandlers, networkChangedHandlers>>]_vars

\* C3 witness: a connectWallet met the wrong network: the error is set, the
\* session is empty and no timer was ever installed.
C3_Witness ==
  /\ networkError = Some(NetworkErrorMessage)
  /\ selectedAddress = Undefined
  /\ tokenData = Undefined
  /\ balance = Undefined
  /\ timerSeq = 0
  /\ connecting = 0

\* C4: when a connectWallet resumes on the expected network, exactly one
\* interval timer is live afterwards and a balance read for the new address
\* is in flight.
C4_ConnectLeavesOneTimer ==
  [][(ConnectResumes /\ networkVersion = "1337") =>
       /\ Cardinality(timers') = 1
       /\ timers' = ToSet(pollDataInterval')
       /\ reads'[[addr |-> selectedAddress', val |-> Undefined]] > 0]_vars

\* C5: when accountsChanged fires with no address, or networkChanged fires,
\* while connected, then right after the listeners ran all six data fields
\* are empty and the timer handle is cleared, its timer no longer live.
C5_ResetEmptiesEverything ==
  [][(ResetEvent /\ selectedAddress # Undefined) =>
       /\ tokenData' = Undefined
       /\ selectedAddress' = Undefined
       /\ balance' = Undefined
       /\ txBeingSent' = Undefined
       /\ transactionError' = Undefined
       /\ networkError' = Undefined
       /\ pollDataInterval' = Undefined
       /\ ToSet(pollDataInterval) \cap timers' = {}]_vars

\* C5 witness: the session was reset while a transaction was awaiting its
\* confirmation.
C5_Witness ==
  /\ accountsChangedHandlers > 0
  /\ selectedAddress = Undefined
  /\ tokenData = Undefined
  /\ balance = Undefined
  /\ txBeingSent = Undefined
  /\ transactionError = Undefined
  /\ networkError = Undefined
  /\ pollDataInterval = Undefined
  /\ \E i \in 1..MaxTx : transfers[i].pc = "waiting"

\* C6: when accountsChanged fires with a new address while connected, the
\* timer the handle named is stopped, selectedAddress is the new address, a
\* new live timer is stored in the handle, and getTokenData was called again
\* (once per listener).
C6_AccountSwitchRestartsPolling ==
  [][\A a \in Addr :
       (AccountsChanged(SessionBounds, Some(a)) /\ selectedAddress # Undefined) =>
         /\ ToSet(pollDataInterval) \cap timers' = {}
         /\ selectedAddress' = Some(a)
         /\ pollDataInterval' # Undefined
         /\ pollDataInterval'[1] \in timers'
         /\ pollDataInterval' # pollDataInterval
         /\ tokenFetches'.name = tokenFetches.name + accountsChangedHandlers
         /\ tokenFetches'.symbol = tokenFetches.symbol]_vars

\* C6 witness: after a reconnection registered each listener twice, the
\* account changed to a2: both listeners ran, the handle names the fourth
\* timer, the only live one, and getTokenData was called twice.
C6_Witness ==
  /\ selectedAddress = Some("a2")
  /\ accountsChangedHandlers = 2
  /\ pollDataInterval = Some(4)
  /\ timers = {4}
  /\ tokenFetches.name = 2

\* the controller's resting states
Disconnected == selectedAddress = Undefined /\ txBeingSent = Undefined
Active == selectedAddress # Undefined /\ txBeingSent = Undefined

\* C7: every transferTokens invocation eventually returns, and when it
\* returns txBeingSent is empty and the controller is Active or Disconnected.
C7_TransferAlwaysReturnsClean ==
  /\ \A i \in 1..MaxTx :
       (transfers[i].pc \in {"submitting", "waiting", "refreshing"})
         ~> (transfers[i].pc = "done")
  /\ [][\A i \in 1..MaxTx :
          Returns(i) => (txBeingSent' = Undefined /\ (Active' \/ Disconnected'))]_vars

\* C7 witness: an invocation that threw has returned while another one is
\* still awaiting its confirmation, and txBeingSent is empty.
C7_Witness ==
  /\ \E i \in 1..MaxTx : transfers[i].pc = "done" /\ transfers[i].outcome = "error"
  /\ \E i \in 1..MaxTx : transfers[i].pc = "waiting"
  /\ txBeingSent = Undefined

\* C8: when an invocation whose receipt had a success status returns while
\* an address is connected, balance is the on-chain balance of that address,
\* txBeingSent is empty and transactionError is unset.
C8_SuccessShowsChainBalance ==
  [][\A i \in 1..MaxTx :
       (ReturnsWith(i, "success") /\ selectedAddress' # Undefined) =>
         /\ balance' = Some(chain'[selectedAddress'[1]])
         /\ txBeingSent' = Undefined
         /\ transactionError' = Undefined]_vars

\* C9: when an invocation returns because its receipt had status 0,
\* transactionError is the "Transaction failed" error, txBeingSent is empty,
\* and no balance read was issued and balance was not written.
C9_FailedReceiptSetsGenericError ==
  [][\A i \in 1..MaxTx :
       ReturnsWith(i, "failed") =>
         /\ transactionError' = Some(TransactionFailedError)
         /\ txBeingSent' = Undefined
         /\ UNCHANGED <<balance, reads>>
         /\ transfers[i].readAddr = Undefined]_vars

\* C9 witness: an invocation has returned on a status-0 receipt of a
\* transaction that was within the signer's balance.
C9_Witness ==
  /\ \E i \in 1..MaxTx : transfers[i].pc = "done" /\ transfers[i].outcome = "failed"
  /\ transactionError = Some(TransactionFailedError)
  /\ txBeingSent = Undefined
  /\ balance # Undefined

Errors == ProviderErrors \cup {TransactionFailedError, UserRejectedError}

\* invocation i catches `error`, thrown by one of its awaited calls
Catches(i, error) ==
  \/ SubmitFailed(i, error)
  \/ WaitFailed(i, error)
  \/ RefreshFailed(i, error)

\* `stored` holds the message getRpcErrorMessage selects from `error`: a
\* string, which no Error object is equal to
HoldsMessageOf(stored, error) ==
  /\ stored # Undefined
  /\ stored[1] \notin Errors
  /\ stored[1] = getRpcErrorMessage(error)

\* C11: whenever a transferTokens invocation catches an error other than the
\* user's rejection (a provider error, or the "Transaction failed" error of
\* a status-0 receipt), transactionError then holds the message
\* getRpcErrorMessage selects from it: error.data.message when the error has
\* data, error.message otherwise.
C11_StoresRpcErrorMessage ==
  [][\A i \in 1..MaxTx :
       /\ \A e \in ProviderErrors :
            Catches(i, e) => HoldsMessageOf(transactionError', e)
       /\ ReturnsWith(i, "failed") =>
            HoldsMessageOf(transactionError', TransactionFailedError)]_vars

\* invocation i has submitted its transfer and has not left its try block
Pending(i) == transfers[i].pc \in {"waiting", "refreshing"}

\* C12: in every reachable state with a session, txBeingSent is set exactly
\* when some submitted transfer has not finished, and at most one submitted
\* transfer is unfinished at a time.
C12_OnePendingTransfer ==
  selectedAddress # Undefined =>
    /\ txBeingSent # Undefined <=> \E i \in 1..MaxTx : Pending(i)
    /\ Cardinality({i \in 1..MaxTx : Pending(i)}) <= 1

\* C13: when a connectWallet resumes on the expected network it leaves
\* networkError empty, whatever an earlier connectWallet set, so that
\* networkError is not set while the address it connected is.
C13_RetryClearsNetworkError ==
  [][(ConnectResumes /\ networkVersion = "1337") =>
       (selectedAddress' # Undefined /\ networkError' = Undefined)]_vars

\* C14: when connectWallet is called while no wallet is installed, the call
\* fails (it throws on its first line) and everything stays empty: the six
\* data fields, no timer installed, no listener registered, nothing awaited.
C14_NoWalletConnectFails ==
  [][ConnectWalletNoProvider(TransferBounds) =>
       /\ uncaughtTypeError'
       /\ tokenData' = Undefined
       /\ selectedAddress' = Undefined
       /\ balance' = Undefined
       /\ txBeingSent' = Undefined
       /\ transactionError' = Undefined
       /\ networkError' = Undefined
       /\ timers' = {} /\ timerSeq' = 0 /\ pollDataInterval' = Undefined
       /\ accountsChangedHandlers' = 0 /\ networkChangedHandlers' = 0
       /\ connecting' = 0 /\ token' = FALSE]_vars

\* C14 witness: connectWallet was called without a wallet and threw; there
\* is no session, no timer and no listener.
C14_Witness ==
  /\ ~ethereum
  /\ uncaughtTypeError
  /\ selectedAddress = Undefined
  /\ timers = {}
  /\ accountsChangedHandlers = 0
  /\ networkChangedHandlers = 0

\* C15: a call of dismissTransactionError leaves transactionError empty and
\* every other field as it was, and a second call right after it would
\* change nothing: the state it leaves is the state two calls leave.
C15_DismissIdempotent ==
  [][DismissTransactionError =>
       /\ transactionError' = Undefined
       /\ UNCHANGED <<tokenData, selectedAddress, balance, txBeingSent,
                      networkError, pollDataInterval, token, timers, timerSeq,
                      tokenFetches, reads>>
       /\ UNCHANGED <<accountsChangedHandlers, networkChangedHandlers,
                      connecting, transfers, envVars>>
       /\ dismissTransactionError(Cur)' = Cur']_vars

\* C15 witness: the error the only transferTokens invocation stored has been
\* dismissed while the address stayed connected.
C15_Witness ==
  /\ selectedAddress # Undefined
  /\ transfers[1] = Finished("error")
  /\ \A i \in 2..MaxTx : transfers[i] = IdleTransfer
  /\ transactionError = Undefined

\* C16: in every reachable state where no address is connected, no interval
\* timer is live.
C16_NoTimerWithoutSession ==
  selectedAddress = Undefined => timers = {}

\* an event whose listeners call stopPollingData
StopEvent ==
  \/ \E a \in {Undefined} \cup {Some(x) : x \in Addr} :
       AccountsChanged(SessionBounds, a)
  \/ \E n \in Networks : NetworkChanged(n)

\* C17: when the listeners stop polling, the timer the handle named is no
\* longer live (it schedules no further read) and no balanceOf call in
\* flight is dropped; and whenever a balanceOf call resolves, also after
\* polling was stopped and also while other calls are in flight, its answer
\* is written to balance, so the call that resolves last decides balance.
C17_LateReadStillApplied ==
  [][/\ StopEvent =>
          /\ ToSet(pollDataInterval) \cap timers' = {}
          /\ \A r \in ReadDescs : reads'[r] >= reads[r]
     /\ \A r \in ReadDescs :
          ReadResolved(r) => (balance' = r.val /\ reads'[r] = reads[r] - 1)]_vars

\* C17 witness: polling was stopped by a reset, which emptied balance; no
\* timer is live, and the balanceOf call that was in flight has resolved
\* since and written balance.
C17_Witness ==
  /\ selectedAddress = Undefined
  /\ pollDataInterval = Undefined
  /\ timers = {}
  /\ timerSeq > 0
  /\ balance # Undefined

\* C18: whenever a balanceOf call resolves while an address is connected and
\* its answer is written to balance, the call was made for that address: no
\* read issued for a previous address is written once the account changed.
C18_BalanceIsOfSelectedAddress ==
  [][\A r \in ReadDescs :
       (ReadResolved(r) /\ selectedAddress # Undefined) =>
         r.addr = selectedAddress]_vars

\* C19: in every reachable state at most one accountsChanged listener and at
\* most one networkChanged listener is registered with the wallet.
C19_OneListenerPerEvent ==
  /\ accountsChangedHandlers <= 1
  /\ networkChangedHandlers <= 1

\* C20: once the component is unmounted no interval timer issues a balance
\* read any more: every timer tick finds the component mounted.
C20_NoPollingAfterUnmount ==
  [][(\E t \in timers : PollTick(SwitchBounds, t)) => mounted]_vars

====
